---------------------------- MODULE Spec2Model ----------------------------
(***************************************************************************)
(* A model of krill (src/krill/krill.py): the text excerpter, the feed     *)
(* and microblog item extractors, and the poll loop with its cross-cycle   *)
(* deduplication, sorting and rendering.                                   *)
(*                                                                         *)
(* Strings are sequences of one-character strings.  Python's None is the   *)
(* sentinel sequence None for strings and the sentinel NoTime for times.   *)
(***************************************************************************)
EXTENDS Integers, Sequences, FiniteSets, TLC

(***************************************************************************)
(* Bounds of the model.                                                    *)
(***************************************************************************)
\* longest text handed to get_excerpt
MaxTextLen == 5
\* longest literal pattern handed to get_excerpt
MaxPatLen == 2
\* largest max_length handed to get_excerpt
MaxMaxLength == 3
\* most entries of a feed document handed to get_feed_items
MaxEntries == 2
\* most poll cycles started in one run of the process
MaxCycles == 2
\* most sources listed in one cycle
MaxSources == 2
\* the latest reading of the clock
MaxClock == 2
\* the excerpt length _print_stream_item asks for (220 in the program),
\* scaled down with the texts of the model
ExcerptLength == 2

(***************************************************************************)
(* Values.                                                                 *)
(***************************************************************************)
None == <<"None">>

\* an absent time
NoTime == -1

\* Python's truth value of an optional string
Truthy(x) == x # None /\ x # <<>>

\* the characters texts are made of: two word characters, a space and a
\* line break
Chars == {"a", "b", " ", "\n"}

\* the characters \s matches
IsSpace(c) == c \in {" ", "\n"}

Min(a, b) == IF a < b THEN a ELSE b

Max(a, b) == IF a > b THEN a ELSE b

\* all strings over Chars of length at most n
StringsUpTo(n) == UNION {[1..k -> Chars] : k \in 0..n}

\* Python's text[a:b] for 0 <= a and 0 <= b
Slice(text, a, b) == SubSeq(text, a + 1, Min(b, Len(text)))

(***************************************************************************)
(* re: a compiled pattern is a literal string; search finds its leftmost   *)
(* occurrence.                                                             *)
(***************************************************************************)
\* the start offsets (0-based) at which pattern occurs in text
Occurrences(pattern, text) ==
    {i \in 0..(Len(text) - Len(pattern)) :
        SubSeq(text, i + 1, i + Len(pattern)) = pattern}

\* pattern.search(text) as a truth value
Search(pattern, text) == Occurrences(pattern, text) # {}

\* pattern.search(text).span() of the first match
Span(pattern, text) ==
    LET start == CHOOSE i \in Occurrences(pattern, text) :
                    \A j \in Occurrences(pattern, text) : i <= j
    IN  <<start, start + Len(pattern)>>

(***************************************************************************)
(* TextExcerpter                                                           *)
(***************************************************************************)
\* does s match \S*\s* as a whole
IsWordThenSpace(s) ==
    \E k \in 0..Len(s) :
        /\ \A i \in 1..k : ~IsSpace(s[i])
        /\ \A i \in (k + 1)..Len(s) : IsSpace(s[i])

\* does s match \s*\S* as a whole
IsSpaceThenWord(s) ==
    \E k \in 0..Len(s) :
        /\ \A i \in 1..k : IsSpace(s[i])
        /\ \A i \in (k + 1)..Len(s) : ~IsSpace(s[i])

\* re.sub("^\S*\s*", "", text, 1): the greedy match anchored at the start
_clip_left(text) ==
    LET n == CHOOSE k \in 0..Len(text) :
                /\ IsWordThenSpace(SubSeq(text, 1, k))
                /\ \A m \in (k + 1)..Len(text) : ~IsWordThenSpace(SubSeq(text, 1, m))
    IN  SubSeq(text, n + 1, Len(text))

\* the length of the match of \s*\S*$ that starts right at the start of
\* suffix, -1 when there is none: $ matches at the end of the text and also
\* before a line break that ends it
EndMatchLength(suffix) ==
    IF IsSpaceThenWord(suffix) THEN Len(suffix)
    ELSE IF /\ suffix # <<>>
            /\ suffix[Len(suffix)] = "\n"
            /\ IsSpaceThenWord(SubSeq(suffix, 1, Len(suffix) - 1))
    THEN Len(suffix) - 1
    ELSE -1

\* re.sub("\s*\S*$", "", text, 1): the leftmost match is removed
_clip_right(text) ==
    LET HasMatch(k) == EndMatchLength(SubSeq(text, k + 1, Len(text))) >= 0
        n == CHOOSE k \in 0..Len(text) :
                /\ HasMatch(k)
                /\ \A m \in 0..(k - 1) : ~HasMatch(m)
        length == EndMatchLength(SubSeq(text, n + 1, Len(text)))
    IN  SubSeq(text, 1, n) \o SubSeq(text, n + length + 1, Len(text))

\* a returned tuple (excerpt, clipped_left, clipped_right)
Triple(excerpt, clipped_left, clipped_right) ==
    [excerpt |-> excerpt, clipped_left |-> clipped_left, clipped_right |-> clipped_right]

\* a returned bare string
Bare(string) == [string |-> string]

\* no value returned yet
NoResult == [pending |-> TRUE]

IsTriple(result) == DOMAIN result = {"excerpt", "clipped_left", "clipped_right"}

\* excerpt_start and excerpt_end as get_excerpt computes them around a match
ExcerptWindow(text, max_length, start, end, remaining_length) ==
    LET excerpt_start0 == Max(start - (remaining_length \div 2), 0)
        excerpt_end    == Min(end + (remaining_length - (start - excerpt_start0)), Len(text))
        \* Adjust start of excerpt in case the string after the match was too short
        excerpt_start  == Max(excerpt_end - max_length, 0)
    IN  <<excerpt_start, excerpt_end>>

\* the matched branch of get_excerpt, after the remaining_length test
ExcerptAroundMatch(text, max_length, start, end, remaining_length) ==
    LET window        == ExcerptWindow(text, max_length, start, end, remaining_length)
        excerpt_start == window[1]
        excerpt_end   == window[2]
        excerpt0      == Slice(text, excerpt_start, excerpt_end)
        excerpt1      == IF excerpt_start > 0 THEN _clip_left(excerpt0) ELSE excerpt0
        excerpt2      == IF excerpt_end < Len(text) THEN _clip_right(excerpt1) ELSE excerpt1
    IN  Triple(excerpt2, excerpt_start > 0, excerpt_end < Len(text))

\* TextExcerpter.get_excerpt(text, max_length, pattern)
get_excerpt(text, max_length, pattern) ==
    IF Len(text) <= max_length
    THEN Triple(text, FALSE, FALSE)
    ELSE IF pattern = None \/ ~Search(pattern, text)
    THEN Triple(_clip_right(Slice(text, 0, max_length)), FALSE, TRUE)
    ELSE LET span             == Span(pattern, text)
             start            == span[1]
             end              == span[2]
             match_text       == Slice(text, start, end)
             remaining_length == max_length - Len(match_text)
         IN  IF remaining_length <= 0
             THEN Bare(match_text)
             ELSE ExcerptAroundMatch(text, max_length, start, end, remaining_length)

(***************************************************************************)
(* StreamParser                                                            *)
(***************************************************************************)
\* markup tokens: a space-keeping tag and an inline tag
SpaceKeepingTags == {"<br>", "<p>", "<li>"}

InlineTags == {"<b>"}

IsTag(token) == token \in SpaceKeepingTags \cup InlineTags

\* re.sub("<(br|p|li)", " \\g<0>", html): a space before every space-keeping tag
RECURSIVE SpaceBeforeTags(_)
SpaceBeforeTags(html) ==
    IF html = <<>> THEN <<>>
    ELSE (IF Head(html) \in SpaceKeepingTags THEN <<" ", Head(html)>> ELSE <<Head(html)>>)
         \o SpaceBeforeTags(Tail(html))

\* BeautifulSoup(html).get_text(): the markup removed
RECURSIVE GetText(_)
GetText(html) ==
    IF html = <<>> THEN <<>>
    ELSE (IF IsTag(Head(html)) THEN <<>> ELSE <<Head(html)>>) \o GetText(Tail(html))

\* " ".join(text.strip().split()): whitespace runs collapsed, the ends trimmed
RECURSIVE JoinSplit(_, _)
JoinSplit(text, pending_space) ==
    IF text = <<>> THEN <<>>
    ELSE IF IsSpace(Head(text)) THEN JoinSplit(Tail(text), TRUE)
    ELSE (IF pending_space THEN <<" ">> ELSE <<>>) \o <<Head(text)>>
         \o JoinSplit(Tail(text), FALSE)

\* the leading whitespace removed
RECURSIVE LStrip(_)
LStrip(text) ==
    IF text # <<>> /\ IsSpace(Head(text)) THEN LStrip(Tail(text)) ELSE text

\* StreamParser._html_to_text(html)
_html_to_text(html) == JoinSplit(LStrip(GetText(SpaceBeforeTags(html))), FALSE)

StreamItem(source, time, title, text, link) ==
    [source |-> source, time |-> time, title |-> title, text |-> text, link |-> link]

\* datetime.fromtimestamp(calendar.timegm(parsed)): a point in time is
\* modelled by its number of seconds
FromTimestamp(seconds) == seconds

\* the fallback with the title left in place
FeedFallback_keeps_title(title, text) ==
    IF text = None /\ title # None
    THEN [title |-> title, text |-> title]
    ELSE [title |-> title, text |-> text]

\* the fallback of get_feed_items: some feeds put the text in the title element
FeedFallback(title, text) ==
    IF text = None /\ title # None
    THEN [title |-> None, text |-> title]
    ELSE [title |-> title, text |-> text]

\* the StreamItem get_feed_items builds for one entry
FeedEntryItem(entry, feed_title) ==
    LET time  == IF entry.published_parsed # NoTime
                 THEN FromTimestamp(entry.published_parsed) ELSE NoTime
        title == entry.title
        text  == IF entry.description # None THEN _html_to_text(entry.description) ELSE None
        link  == entry.link
        moved == FeedFallback(title, text)
    IN  StreamItem(feed_title, time, moved.title, moved.text, link)

\* at least one element must contain text for the item to be useful
FeedItemUseful(item) == Truthy(item.title) \/ Truthy(item.text) \/ Truthy(item.link)

\* feed_data.feed.get("title", url)
FeedTitle(feed_data, url) == IF feed_data.title # None THEN feed_data.title ELSE url

\* StreamParser.get_feed_items(xml, url): the items the generator yields
RECURSIVE FeedItemsFrom(_, _)
FeedItemsFrom(entries, feed_title) ==
    IF entries = <<>> THEN <<>>
    ELSE LET item == FeedEntryItem(Head(entries), feed_title)
         IN  (IF FeedItemUseful(item) THEN <<item>> ELSE <<>>)
             \o FeedItemsFrom(Tail(entries), feed_title)

get_feed_items(feed_data, url) ==
    FeedItemsFrom(feed_data.entries, FeedTitle(feed_data, url))

\* "%s (@%s)" % (name, username)
TweetSource(name, username) == name \o <<" ", "(", "@">> \o username \o <<")">>

\* "https://twitter.com%s" % href
TweetLink(href) == <<"https://twitter.com">> \o href

\* to_unicode(tweet).replace(u"\u2026", ""): the ellipsis characters removed
RECURSIVE RemoveEllipsis(_)
RemoveEllipsis(html) ==
    IF html = <<>> THEN <<>>
    ELSE (IF Head(html) = "..." THEN <<>> ELSE <<Head(html)>>) \o RemoveEllipsis(Tail(html))

\* a sub-element get_tweets dereferences is missing from the post block
TweetRaises(post) ==
    \/ ~post.header
    \/ post.fullname = None
    \/ post.username = None
    \/ post.data_time = NoTime
    \/ post.href = None

\* the StreamItem get_tweets builds for one post block
TweetItem(post) ==
    StreamItem(TweetSource(post.fullname, post.username),
               FromTimestamp(post.data_time),
               None,
               _html_to_text(RemoveEllipsis(<<"<p>">> \o post.body)),
               TweetLink(post.href))

\* StreamParser.get_tweets(html): the items the generator yields, and whether
\* it then raises instead of finishing
RECURSIVE get_tweets(_)
get_tweets(posts) ==
    IF posts = <<>> THEN [items |-> <<>>, raised |-> FALSE]
    ELSE IF TweetRaises(Head(posts)) THEN [items |-> <<>>, raised |-> TRUE]
    ELSE LET rest == get_tweets(Tail(posts))
         IN  [items |-> <<TweetItem(Head(posts))>> \o rest.items, raised |-> rest.raised]

(***************************************************************************)
(* Application                                                             *)
(***************************************************************************)
\* "//twitter.com/" in url
IsTwitterUrl(url) == \E i \in DOMAIN url : url[i] = "//twitter.com/"

\* _get_stream_items without the try: the error of urlopen propagates
FetchErrorRaises == [items |-> <<>>, raised |-> TRUE]

\* the except branch of _get_stream_items: the error is printed and an
\* empty list returned; nothing is raised
FetchErrorResult == [items |-> <<>>, raised |-> FALSE]

\* _get_stream_items(url) once urlopen(url).read() has returned data
ParseStream(url, data) ==
    IF IsTwitterUrl(url)
    THEN get_tweets(data)
    ELSE [items |-> get_feed_items(data, url), raised |-> FALSE]

\* the filter test of update for one item and one pattern
ItemMatches(item, pattern) ==
    \/ item.title # None /\ Search(pattern, item.title)
    \/ item.text # None /\ Search(pattern, item.text)
    \/ item.link # None /\ Search(pattern, item.link)

\* the index of the first pattern the item matches, 0 when there is none
FirstMatching(item, patterns) ==
    IF \E i \in DOMAIN patterns : ItemMatches(item, patterns[i])
    THEN CHOOSE i \in DOMAIN patterns :
            /\ ItemMatches(item, patterns[i])
            /\ \A j \in 1..(i - 1) : ~ItemMatches(item, patterns[j])
    ELSE 0

\* the identity of an item in _known_items
ItemId(item) == <<item.source, item.link>>

\* add_item that does not mark the identity as known
add_item_no_mark(item, pattern, st) ==
    IF ItemId(item) \in st.known
    THEN st
    ELSE [known |-> st.known,
          items |-> Append(st.items, [item |-> item, pattern |-> pattern])]

\* add_item that does not test whether the identity is known
add_item_unchecked(item, pattern, st) ==
    [known |-> st.known \cup {ItemId(item)},
     items |-> Append(st.items, [item |-> item, pattern |-> pattern])]

\* add_item(item, pattern) on the state (known: _known_items, items: items)
add_item(item, pattern, st) ==
    IF ItemId(item) \in st.known
    THEN st
    ELSE [known |-> st.known \cup {ItemId(item)},
          items |-> Append(st.items, [item |-> item, pattern |-> pattern])]

\* the body of the loop over the items of one source
FilterItem(item, patterns, st) ==
    IF patterns # <<>>
    THEN IF FirstMatching(item, patterns) # 0
         THEN add_item(item, patterns[FirstMatching(item, patterns)], st)
         ELSE st
    ELSE add_item(item, None, st)

\* the loop over the items of one source
RECURSIVE FilterItems(_, _, _)
FilterItems(stream, patterns, st) ==
    IF stream = <<>> THEN st
    ELSE FilterItems(Tail(stream), patterns, FilterItem(Head(stream), patterns, st))

\* the sort key of a queued item: its time, or the clock reading taken for it
SortKey(entry, reading) == IF entry.item.time = NoTime THEN reading ELSE entry.item.time

\* one item put into an already sorted list, behind the items of equal key
RECURSIVE InsertByKey(_, _)
InsertByKey(sorted, keyed) ==
    IF sorted = <<>> THEN <<keyed>>
    ELSE IF keyed.key < Head(sorted).key THEN <<keyed>> \o sorted
    ELSE <<Head(sorted)>> \o InsertByKey(Tail(sorted), keyed)

\* the queue left in the order the items were queued
SortByKey_unsorted(keyed) == keyed

\* items.sort(key=...): a stable sort by key
RECURSIVE SortByKey(_)
SortByKey(keyed) ==
    IF keyed = <<>> THEN <<>>
    ELSE InsertByKey(SortByKey(SubSeq(keyed, 1, Len(keyed) - 1)), keyed[Len(keyed)])

\* _print_stream_item raises: get_excerpt's value does not unpack into
\* (excerpt, clipped_left, clipped_right)
PrintRaises(item, pattern) ==
    /\ item.text # None
    /\ ~IsTriple(get_excerpt(item.text, ExcerptLength, pattern))

(***************************************************************************)
(* State.                                                                  *)
(***************************************************************************)
VARIABLES
    ex_text,        \* get_excerpt: the text argument
    ex_max_length,  \* get_excerpt: the max_length argument
    ex_pattern,     \* get_excerpt: the pattern argument (None or a literal)
    ex_result,      \* get_excerpt: the returned value, NoResult before the call
    fd_feed,        \* get_feed_items: the parsed feed document
    fd_url,         \* get_feed_items: the url argument
    fd_pos,         \* get_feed_items: the entry the generator is at
    fd_out,         \* get_feed_items: the items yielded so far
    fd_origin,      \* for each yielded item, the index of its entry
    update_interval, \* args.update_interval
    pc,             \* where Application.run is: "update", "fetch", "sort",
                    \* "render", "sleep" or "exited"
    exit_cause,     \* why the process ended, "" while it runs
    cycles,         \* the number of calls of update so far
    now,            \* the clock datetime.now() reads
    known_items,    \* Application._known_items
    sources,        \* update: the sources of this cycle
    patterns,       \* update: the compiled filters of this cycle
    src_idx,        \* update: the source the loop is at
    items,          \* update: the queued (item, pattern) pairs
    readings,       \* for each sorted item, the clock reading its key took
    printed,        \* the (item, pattern) pairs handed to _print_stream_item
                    \* in this cycle
    printed_before, \* the identities printed in earlier cycles
    known_at_start, \* _known_items when this cycle began
    first_pass,     \* for each identity, the first item of this cycle, in
                    \* processing order, that passed the filters
    fetched         \* the outcome of each fetch of this cycle, in order

ex_vars == <<ex_text, ex_max_length, ex_pattern, ex_result>>

fd_vars == <<fd_feed, fd_url, fd_pos, fd_out, fd_origin>>

app_vars == <<update_interval, pc, exit_cause, cycles, now, known_items, sources,
              patterns, src_idx, items, readings, printed, printed_before,
              known_at_start, first_pass, fetched>>

vars == <<ex_text, ex_max_length, ex_pattern, ex_result,
          fd_feed, fd_url, fd_pos, fd_out, fd_origin,
          update_interval, pc, exit_cause, cycles, now, known_items, sources,
          patterns, src_idx, items, readings, printed, printed_before,
          known_at_start, first_pass, fetched>>

\* the locals of update before a cycle
UpdateIdle ==
    /\ sources = <<>>
    /\ patterns = <<>>
    /\ src_idx = 1
    /\ items = <<>>
    /\ readings = <<>>
    /\ printed = <<>>
    /\ known_at_start = {}
    /\ first_pass = {}
    /\ fetched = <<>>

\* the application not in use
AppIdle ==
    /\ update_interval = 0
    /\ pc = "exited"
    /\ exit_cause = ""
    /\ cycles = 0
    /\ now = 1
    /\ known_items = {}
    /\ printed_before = {}
    /\ UpdateIdle

\* the excerpter not in use
ExIdle ==
    /\ ex_text = <<>>
    /\ ex_max_length = 0
    /\ ex_pattern = None
    /\ ex_result = NoResult

\* the feed extractor not in use
FdIdle ==
    /\ fd_feed = [title |-> None, entries |-> <<>>]
    /\ fd_url = <<>>
    /\ fd_pos = 1
    /\ fd_out = <<>>
    /\ fd_origin = <<>>

(***************************************************************************)
(* The excerpter called on every bounded input.                            *)
(***************************************************************************)
InitExcerpt ==
    /\ ex_text \in StringsUpTo(MaxTextLen)
    /\ ex_max_length \in 1..MaxMaxLength
    /\ ex_pattern \in {None} \cup StringsUpTo(MaxPatLen)
    /\ ex_result = NoResult
    /\ FdIdle
    /\ AppIdle

CallGetExcerpt ==
    /\ ex_result = NoResult
    /\ ex_result' = get_excerpt(ex_text, ex_max_length, ex_pattern)
    /\ UNCHANGED <<ex_text, ex_max_length, ex_pattern>>
    /\ UNCHANGED <<fd_vars, app_vars>>

NextExcerpt == CallGetExcerpt

SpecExcerpt == InitExcerpt /\ [][NextExcerpt]_vars

(***************************************************************************)
(* Properties of get_excerpt.                                              *)
(***************************************************************************)
ExCalled == ex_result # NoResult

\* the pattern is given and matches somewhere in the text
ExMatched == ex_pattern # None /\ Search(ex_pattern, ex_text)

\* the text of the first match
ExMatchText ==
    LET span == Span(ex_pattern, ex_text) IN Slice(ex_text, span[1], span[2])

\* the string the caller gets, whatever the shape of the returned value
ExReturnedText ==
    IF IsTriple(ex_result) THEN ex_result.excerpt ELSE ex_result.string

\* C3: for a text longer than max_length whose first match is at least
\* max_length long, get_excerpt returns the triple (match text, false, false).
C3_LongMatchReturnsTriple ==
    (ExCalled /\ Len(ex_text) > ex_max_length /\ ExMatched
        /\ Len(ExMatchText) >= ex_max_length)
    => ex_result = Triple(ExMatchText, FALSE, FALSE)

\* C10: whenever the pattern matches in a text longer than max_length, the
\* returned excerpt contains the full text of the first match.
C10_ExcerptContainsMatch ==
    (ExCalled /\ Len(ex_text) > ex_max_length /\ ExMatched)
    => Search(ExMatchText, ExReturnedText)

\* the window [excerpt_start, excerpt_end) the excerpt is cut from
ExWindow ==
    IF ExMatched
    THEN LET span == Span(ex_pattern, ex_text)
         IN  ExcerptWindow(ex_text, ex_max_length, span[1], span[2],
                           ex_max_length - Len(ExMatchText))
    ELSE <<0, ex_max_length>>

\* the offset in the text at which the returned excerpt starts: the start of
\* the window plus what the left clip removed
ExOffset ==
    LET slice == Slice(ex_text, ExWindow[1], ExWindow[2])
    IN  IF ex_result.clipped_left
        THEN ExWindow[1] + (Len(slice) - Len(_clip_left(slice)))
        ELSE ExWindow[1]

\* the first match, if any, is shorter than max_length
ExMatchFits == ExMatched => Len(ExMatchText) < ex_max_length

\* the returned excerpt is the part of the text at its offset; with
\* clipped_left it is empty or starts right after whitespace of the text;
\* with clipped_right it is empty or ends right before whitespace of the text
ExcerptAtWordBoundaries ==
    /\ IsTriple(ex_result)
    /\ LET excerpt == ex_result.excerpt
           from    == ExOffset
           to      == ExOffset + Len(excerpt)
       IN  excerpt # <<>> =>
             /\ to <= Len(ex_text)
             /\ excerpt = SubSeq(ex_text, from + 1, to)
             /\ ex_result.clipped_left =>
                   (from > 0 /\ IsSpace(ex_text[from]))
             /\ ex_result.clipped_right =>
                   (to < Len(ex_text) /\ IsSpace(ex_text[to + 1]))

\* C4: when the first match (if any) is shorter than max_length, a clipped
\* excerpt never starts or ends mid-word: with clipped_left it is empty or
\* begins at a position of the text preceded by whitespace, with
\* clipped_right it is empty or ends at a position of the text followed by
\* whitespace.
C4_ClippedAtWordBoundaries ==
    (ExCalled /\ ExMatchFits /\ Len(ex_text) > ex_max_length)
    => ExcerptAtWordBoundaries

\* the text holds no line break
OneLine == \A i \in 1..Len(ex_text) : ex_text[i] # "\n"

\* on a text without line breaks every clipped excerpt is cut at word
\* boundaries: the right clip goes wrong only where $ matches before a line
\* break that ends the slice
ClippedAtWordBoundariesOnOneLine ==
    (ExCalled /\ ExMatchFits /\ Len(ex_text) > ex_max_length /\ OneLine)
    => ExcerptAtWordBoundaries

(***************************************************************************)
(* The feed extractor run on every bounded feed document.                  *)
(***************************************************************************)
\* the entries a feed document is made of; an absent key is None or NoTime
FeedEntries ==
    [published_parsed : {NoTime, 1},
     title            : {None, <<>>, <<"a">>},
     description      : {None, <<>>, <<" ", "a", "<br>", "b">>},
     link             : {None, <<"a">>}]

SeqsUpTo(S, n) == UNION {[1..k -> S] : k \in 0..n}

FeedDocuments ==
    [title : {None, <<"b">>}, entries : SeqsUpTo(FeedEntries, MaxEntries)]

InitFeed ==
    /\ fd_feed \in FeedDocuments
    /\ fd_url = <<"a", "b">>
    /\ fd_pos = 1
    /\ fd_out = <<>>
    /\ fd_origin = <<>>
    /\ ExIdle
    /\ AppIdle

\* one turn of the loop of get_feed_items
NextFeedEntry ==
    /\ fd_pos <= Len(fd_feed.entries)
    /\ LET item == FeedEntryItem(fd_feed.entries[fd_pos], FeedTitle(fd_feed, fd_url))
       IN  IF FeedItemUseful(item)
           THEN /\ fd_out' = Append(fd_out, item)
                /\ fd_origin' = Append(fd_origin, fd_pos)
           ELSE UNCHANGED <<fd_out, fd_origin>>
    /\ fd_pos' = fd_pos + 1
    /\ UNCHANGED <<fd_feed, fd_url>>
    /\ UNCHANGED <<ex_vars, app_vars>>

NextFeed == NextFeedEntry

SpecFeed == InitFeed /\ [][NextFeed]_vars

(***************************************************************************)
(* Properties of get_feed_items.                                           *)
(***************************************************************************)
\* C8: for every feed entry that has no description but has a title, the
\* extracted item has text equal to the original title and no title (and the
\* entry does yield an item when that title is not empty); for an entry that
\* has a description the title is kept as the title and the text is the
\* normalised description.
C8_TitleFallback ==
    /\ \A k \in DOMAIN fd_out :
          LET entry == fd_feed.entries[fd_origin[k]]
              item  == fd_out[k]
          IN  /\ (entry.description = None /\ entry.title # None)
                    => (item.text = entry.title /\ item.title = None)
              /\ entry.description # None
                    => /\ item.title = entry.title
                       /\ item.text = _html_to_text(entry.description)
    /\ \A i \in 1..(fd_pos - 1) :
          LET entry == fd_feed.entries[i]
          IN  (entry.description = None /\ Truthy(entry.title))
                => \E k \in DOMAIN fd_out : fd_origin[k] = i
    /\ fd_pos > Len(fd_feed.entries) => fd_out = get_feed_items(fd_feed, fd_url)

\* an entry with a title and no description has yielded its item
C8_Witness ==
    \E k \in DOMAIN fd_out :
        LET entry == fd_feed.entries[fd_origin[k]]
        IN  /\ entry.description = None
            /\ Truthy(entry.title)
            /\ fd_out[k].text = entry.title

(***************************************************************************)
(* The poll loop: Application.run and Application.update.                  *)
(***************************************************************************)
\* the source specifications a sources list or file may hold
FeedUrl == <<"u">>

TwitterUrl == <<"//twitter.com/", "w">>

Urls == {FeedUrl, TwitterUrl}

\* a text longer than ExcerptLength and a filter whose match fills the budget
LongText == [i \in 1..(ExcerptLength + 1) |-> "a"]

LongPattern == [i \in 1..ExcerptLength |-> "a"]

\* the filter lists the filters option and file may hold
FilterLists == {<<>>, <<<<"b">>>>, <<<<"b">>, LongPattern>>, <<LongPattern, <<"b">>>>}

\* the entries of the feed documents the feed source serves
EntryEarly ==
    [published_parsed |-> 0, title |-> <<"a">>, description |-> None, link |-> <<"l">>]

EntryUndated ==
    [published_parsed |-> NoTime, title |-> <<"a">>, description |-> <<"b">>,
     link |-> <<"l">>]

AppEntries == {EntryEarly, EntryUndated}

AppFeedDocuments ==
    [title : {<<"T">>}, entries : SeqsUpTo(AppEntries, MaxEntries)]

\* the post blocks of the pages the microblog source serves
GoodPost ==
    [header |-> TRUE, fullname |-> <<"N">>, username |-> <<"n">>, data_time |-> 1,
     href |-> <<"/s">>, body |-> LongText \o <<"<br>", "b", "...">>]

PostWithoutHeader ==
    [header |-> FALSE, fullname |-> None, username |-> None, data_time |-> NoTime,
     href |-> None, body |-> <<"b">>]

AppPosts == {GoodPost, PostWithoutHeader}

AppPages == SeqsUpTo(AppPosts, MaxEntries)

\* the data urlopen(url).read() may return for a url
DataFor(url) == IF IsTwitterUrl(url) THEN AppPages ELSE AppFeedDocuments

Running == pc # "exited"

InitApp ==
    /\ update_interval \in {-1, 0, 300}
    /\ pc = "update"
    /\ exit_cause = ""
    /\ cycles = 0
    /\ now = 1
    /\ known_items = {}
    /\ printed_before = {}
    /\ UpdateIdle
    /\ ExIdle
    /\ FdIdle

\* the process ends: nothing of its memory is left
Exit(cause) ==
    /\ pc' = "exited"
    /\ exit_cause' = cause
    /\ known_items' = {}
    /\ printed_before' = {}
    /\ sources' = <<>>
    /\ patterns' = <<>>
    /\ src_idx' = 1
    /\ items' = <<>>
    /\ readings' = <<>>
    /\ printed' = <<>>
    /\ known_at_start' = {}
    /\ first_pass' = {}
    /\ fetched' = <<>>
    /\ UNCHANGED <<update_interval, cycles, now>>
    /\ UNCHANGED <<ex_vars, fd_vars>>

\* update, up to the loop over the sources: the sources and the filters are
\* loaded afresh and the filters compiled
StartUpdate ==
    /\ pc = "update"
    /\ cycles < MaxCycles
    /\ \E srcs \in SeqsUpTo(Urls, MaxSources) \ {<<>>}, flts \in FilterLists :
          /\ sources' = srcs
          /\ patterns' = flts
    /\ src_idx' = 1
    /\ items' = <<>>
    /\ readings' = <<>>
    /\ printed' = <<>>
    /\ first_pass' = {}
    /\ fetched' = <<>>
    /\ known_at_start' = known_items
    /\ cycles' = cycles + 1
    /\ pc' = "fetch"
    /\ UNCHANGED <<update_interval, exit_cause, now, known_items, printed_before>>
    /\ UNCHANGED <<ex_vars, fd_vars>>

\* update: a file cannot be read, no source is found or a filter does not
\* compile: sys.exit(1)
ConfigError ==
    /\ pc = "update"
    /\ cycles < MaxCycles
    /\ Exit("config")

\* the record of the items of a stream added to the record of the cycle: for
\* each identity the first item that passed the filters, its rank among
\* them, and whether another item of that identity passed after it
RECURSIVE FirstPasses(_, _, _)
FirstPasses(stream, flts, recorded) ==
    IF stream = <<>> THEN recorded
    ELSE LET item   == Head(stream)
             passes == flts = <<>> \/ FirstMatching(item, flts) # 0
             seen   == {r \in recorded : r.id = ItemId(item)}
             added  == IF ~passes THEN recorded
                       ELSE IF seen = {}
                       THEN recorded \cup {[id |-> ItemId(item), item |-> item,
                                            rank |-> Cardinality(recorded) + 1,
                                            again |-> FALSE]}
                       ELSE (recorded \ seen) \cup {[r EXCEPT !.again = TRUE] : r \in seen}
         IN  FirstPasses(Tail(stream), flts, added)

\* one turn of the loop over the sources: the items the stream yields are
\* filtered and queued; the stream may raise when it is exhausted
ProcessSource(result, outcome) ==
    IF result.raised
    THEN Exit("parse_error")
    ELSE LET st == FilterItems(result.items, patterns,
                               [known |-> known_items, items |-> items])
         IN  /\ known_items' = st.known
             /\ items' = st.items
             /\ first_pass' = FirstPasses(result.items, patterns, first_pass)
             /\ fetched' = Append(fetched, outcome)
             /\ pc' = IF src_idx = Len(sources) THEN "sort" ELSE "fetch"
             /\ src_idx' = src_idx + 1
             /\ UNCHANGED <<update_interval, exit_cause, cycles, now, sources, patterns,
                            readings, printed, printed_before, known_at_start>>
             /\ UNCHANGED <<ex_vars, fd_vars>>

\* update: urlopen raises for the source the loop is at
FetchFails ==
    /\ pc = "fetch"
    /\ ProcessSource(FetchErrorResult, "failed")

\* update: the source the loop is at is retrieved and its items are filtered
\* and queued
FetchSource ==
    /\ pc = "fetch"
    /\ \E data \in DataFor(sources[src_idx]) :
          ProcessSource(ParseStream(sources[src_idx], data), "ok")

\* update: items.sort with a clock reading for every item without a time;
\* the readings do not decrease in the order the keys are taken
SortItems ==
    /\ pc = "sort"
    /\ \E rd \in [DOMAIN items -> now..MaxClock] :
          /\ \A i, j \in DOMAIN items : i < j => rd[i] <= rd[j]
          /\ LET keyed  == [i \in DOMAIN items |->
                              [item |-> items[i].item, pattern |-> items[i].pattern,
                               key |-> SortKey(items[i], rd[i]),
                               reading |-> IF items[i].item.time = NoTime
                                           THEN rd[i] ELSE NoTime]]
                 sorted == SortByKey(keyed)
                 taken  == {keyed[i].reading : i \in DOMAIN keyed} \ {NoTime}
             IN  /\ items' = [i \in DOMAIN sorted |->
                                [item |-> sorted[i].item, pattern |-> sorted[i].pattern]]
                 /\ readings' = [i \in DOMAIN sorted |-> sorted[i].reading]
                 /\ now' = IF taken = {} THEN now
                           ELSE CHOOSE t \in taken : \A u \in taken : u <= t
    /\ pc' = "render"
    /\ UNCHANGED <<update_interval, exit_cause, cycles, known_items, sources, patterns,
                   src_idx, printed, printed_before, known_at_start, first_pass, fetched>>
    /\ UNCHANGED <<ex_vars, fd_vars>>

\* update: the next sorted item is handed to _print_stream_item
RenderItem ==
    /\ pc = "render"
    /\ Len(printed) < Len(items)
    /\ LET next == items[Len(printed) + 1]
       IN  IF PrintRaises(next.item, next.pattern)
           THEN Exit("print_error")
           ELSE /\ printed' = Append(printed, next)
                /\ UNCHANGED <<update_interval, pc, exit_cause, cycles, now, known_items,
                               sources, patterns, src_idx, items, readings,
                               printed_before, known_at_start, first_pass, fetched>>
                /\ UNCHANGED <<ex_vars, fd_vars>>

\* update has returned
CycleComplete == pc = "render" /\ Len(printed) = Len(items)

\* run: update has returned and the interval is not positive: break
BreakLoop ==
    /\ CycleComplete
    /\ update_interval <= 0
    /\ Exit("single_pass")

\* run: update has returned and the interval is positive: time.sleep begins
Sleep ==
    /\ CycleComplete
    /\ update_interval > 0
    /\ pc' = "sleep"
    /\ printed_before' = printed_before \cup {ItemId(printed[i].item) : i \in DOMAIN printed}
    /\ sources' = <<>>
    /\ patterns' = <<>>
    /\ src_idx' = 1
    /\ items' = <<>>
    /\ readings' = <<>>
    /\ printed' = <<>>
    /\ known_at_start' = {}
    /\ first_pass' = {}
    /\ fetched' = <<>>
    /\ UNCHANGED <<update_interval, exit_cause, cycles, now, known_items>>
    /\ UNCHANGED <<ex_vars, fd_vars>>

\* run: time.sleep returns and the loop turns
Wake ==
    /\ pc = "sleep"
    /\ pc' = "update"
    /\ \E t \in now..Min(now + 1, MaxClock) : now' = t
    /\ UNCHANGED <<update_interval, exit_cause, cycles, known_items, sources, patterns,
                   src_idx, items, readings, printed, printed_before, known_at_start,
                   first_pass, fetched>>
    /\ UNCHANGED <<ex_vars, fd_vars>>

\* run: KeyboardInterrupt inside the try: sys.exit()
Interrupt ==
    /\ Running
    /\ Exit("interrupt")

Next ==
    \/ StartUpdate
    \/ ConfigError
    \/ FetchFails
    \/ FetchSource
    \/ SortItems
    \/ RenderItem
    \/ BreakLoop
    \/ Sleep
    \/ Wake
    \/ Interrupt

Spec == InitApp /\ [][Next]_vars

(***************************************************************************)
(* Properties of the poll loop.                                            *)
(***************************************************************************)
IdsOf(queue) == {ItemId(queue[i].item) : i \in DOMAIN queue}

\* an update is under way
InCycle == pc \in {"fetch", "sort", "render"}

\* C1: an identity (source, link) printed in one cycle is never queued for
\* printing nor handed to _print_stream_item in a later cycle, whatever the
\* time, title and text of the item that carries it.
C1_PrintedAtMostOnce ==
    /\ IdsOf(items) \cap printed_before = {}
    /\ IdsOf(printed) \cap printed_before = {}

\* a cycle has ended in which an item passed the filters whose identity was
\* printed in an earlier cycle
C1_Witness ==
    /\ CycleComplete
    /\ \E r \in first_pass : r.id \in printed_before

\* C2: within a cycle no two queued items share an identity; for every
\* identity not known when the cycle began, the queue holds the first item
\* in processing order that passed the filters, and no other queued item
\* exists; the items are handed to _print_stream_item from the queue, in its
\* order, and all of them when update returns.
C2_FirstSeenWins ==
    InCycle =>
        /\ \A i, j \in DOMAIN items :
              ItemId(items[i].item) = ItemId(items[j].item) => i = j
        /\ \A r \in first_pass :
              r.id \notin known_at_start => \E i \in DOMAIN items : items[i].item = r.item
        /\ \A i \in DOMAIN items :
              \E r \in first_pass : r.item = items[i].item /\ r.id \notin known_at_start
        /\ Len(printed) <= Len(items)
        /\ \A i \in DOMAIN printed : printed[i] = items[i]

\* update has returned after two items of one new identity passed the
\* filters; the first of them was printed
C2_Witness ==
    /\ CycleComplete
    /\ \E r \in first_pass :
          /\ r.again
          /\ r.id \notin known_at_start
          /\ \E i \in DOMAIN printed : printed[i].item = r.item

\* the effect of a failed fetch: nothing is queued or marked, the process
\* goes on, and the loop is at the next source or past the last one
FailureIsLocal ==
    /\ known_items' = known_items
    /\ items' = items
    /\ sources' = sources
    /\ exit_cause' = exit_cause
    /\ src_idx' = src_idx + 1
    /\ pc' = IF src_idx = Len(sources) THEN "sort" ELSE "fetch"

\* C5: a fetch failure contributes no item and leaves the dedup set as it
\* is, and neither the cycle nor the process ends with it: the loop goes to
\* the next source; when update returns, every source of the cycle has been
\* fetched and every new item that passed the filters has been printed; the
\* loop then sleeps and turns again.
C5_FetchFailureIsLocal ==
    /\ [][FetchFails => FailureIsLocal]_vars
    /\ [](CycleComplete =>
            /\ Len(fetched) = Len(sources)
            /\ \A r \in first_pass :
                  r.id \notin known_at_start
                    => \E i \in DOMAIN printed : printed[i].item = r.item)
    /\ [][(CycleComplete /\ update_interval > 0 /\ Running')
            => pc' = "sleep"]_vars
    /\ [][(pc = "sleep" /\ Running') => pc' = "update"]_vars

\* update has returned with items printed although the fetch of one source
\* of the cycle failed and another source was fetched
C5_Witness ==
    /\ CycleComplete
    /\ \E i, j \in DOMAIN fetched : fetched[i] = "failed" /\ fetched[j] = "ok"
    /\ printed # <<>>

\* C6: a post block that lacks a required sub-element is skipped and no
\* error propagates out of the cycle.
C6_MalformedPostSkipped == exit_cause # "parse_error"

\* C7: the process ends only by the break after the single cycle of a
\* non-positive interval, by a fatal configuration error or by a user
\* interrupt.
C7_LoopEndsOnlyByDesign ==
    pc = "exited" =>
        \/ exit_cause = "single_pass" /\ update_interval <= 0 /\ cycles = 1
        \/ exit_cause \in {"config", "interrupt"}

\* the key the sort gave the i-th sorted item
KeyAt(i) == IF items[i].item.time = NoTime THEN readings[i] ELSE items[i].item.time

\* C9: items are printed only once every source of the cycle has been
\* processed, in the order of the sorted queue, which does not decrease in
\* time; an item without a time counts with a clock reading taken at the
\* sort, so it comes after every item whose time is earlier than that.
C9_PrintedInTimeOrder ==
    /\ printed # <<>> => pc = "render"
    /\ pc = "render" =>
        /\ Len(fetched) = Len(sources)
        /\ src_idx = Len(sources) + 1
        /\ \A i \in DOMAIN printed : printed[i] = items[i]
        /\ \A i, j \in DOMAIN items : i < j => KeyAt(i) <= KeyAt(j)
        /\ \A i \in DOMAIN items :
              items[i].item.time = NoTime => readings[i] \in 1..now
        /\ \A i, j \in DOMAIN items :
              (items[i].item.time = NoTime /\ items[j].item.time # NoTime
                 /\ items[j].item.time < readings[i]) => j < i

\* the rank at which the cycle queued the i-th sorted item
RankAt(i) == (CHOOSE r \in first_pass : r.item = items[i].item).rank

\* update has returned having printed an item with a time before an item
\* without one, although the cycle had queued them the other way round
C9_Witness ==
    /\ CycleComplete
    /\ \E i, j \in DOMAIN printed :
          /\ i < j
          /\ printed[i].item.time # NoTime
          /\ printed[j].item.time = NoTime
          /\ RankAt(i) > RankAt(j)

=============================================================================
